---- MODULE Spec2Model ----
(***************************************************************************)
(* A model of the `one` client library: provider detection from a model   *)
(* name (src/one/client.py), the Model facade, and the two providers      *)
(* (src/one/providers/openai.py, src/one/providers/anthropic.py).         *)
(*                                                                         *)
(* Python values are tagged records ([type |-> "str", v |-> ...]), calls  *)
(* are keyword records, and argument binding follows Python's rules, so   *)
(* that a TypeError of the interpreter is an outcome of the model and not *)
(* something written into it.  A model name is a sequence of characters,  *)
(* every other string is a TLA+ string.                                    *)
(***************************************************************************)
EXTENDS Integers, Sequences, FiniteSets, TLC

VARIABLES objs, last, trace, reply, built, callCount, requestCount

vars == <<objs, last, trace, reply, built, callCount, requestCount>>

(***************************************************************************)
(* Bounds of the model.                                                    *)
(***************************************************************************)
MaxObjs == 1

\* The number of method calls made on Models.
MaxCalls == 2

(***************************************************************************)
(* Python values.                                                          *)
(***************************************************************************)
PyNone == [type |-> "NoneType"]

PyStr(s) == [type |-> "str", v |-> s]

PyInt(n) == [type |-> "int", v |-> n]

\* A float, kept in tenths: PyFloat(7) is 0.7.
PyFloat(t) == [type |-> "float", v |-> t]

\* A class object passed as a value (response_format=Person).
PyClass(c) == [type |-> "type", v |-> c]

\* Python truthiness, for `x or y`.
Truthy(x) ==
    CASE x.type = "NoneType" -> FALSE
      [] x.type = "str" -> Len(x.v) > 0
      [] x.type = "int" -> x.v # 0
      [] x.type = "float" -> x.v # 0
      [] OTHER -> TRUE

\* `a or b`
Or(a, b) == IF Truthy(a) THEN a ELSE b

(***************************************************************************)
(* Outcomes of a call: a returned value or a raised exception.             *)
(***************************************************************************)
Return(v) == [raise |-> FALSE, value |-> v]

Raise(t, m) == [raise |-> TRUE, error |-> [type |-> t, msg |-> m]]

(***************************************************************************)
(* str.lower() and str.startswith() on sequences of characters.            *)
(***************************************************************************)
UpperChars ==
    <<"A", "B", "C", "D", "E", "F", "G", "H", "I", "J", "K", "L", "M",
      "N", "O", "P", "Q", "R", "S", "T", "U", "V", "W", "X", "Y", "Z">>

LowerChars ==
    <<"a", "b", "c", "d", "e", "f", "g", "h", "i", "j", "k", "l", "m",
      "n", "o", "p", "q", "r", "s", "t", "u", "v", "w", "x", "y", "z">>

CharLower(c) ==
    IF \E i \in DOMAIN UpperChars : UpperChars[i] = c
    THEN LowerChars[CHOOSE i \in DOMAIN UpperChars : UpperChars[i] = c]
    ELSE c

CharUpper(c) ==
    IF \E i \in DOMAIN LowerChars : LowerChars[i] = c
    THEN UpperChars[CHOOSE i \in DOMAIN LowerChars : LowerChars[i] = c]
    ELSE c

lower(s) == [i \in 1..Len(s) |-> CharLower(s[i])]

upper(s) == [i \in 1..Len(s) |-> CharUpper(s[i])]

\* s.startswith(p) for one prefix p
startswith1(s, p) == Len(s) >= Len(p) /\ SubSeq(s, 1, Len(p)) = p

\* s.startswith(ps) for a tuple of prefixes, given as a set
startswith(s, ps) == \E p \in ps : startswith1(s, p)

OpenAIPrefixes ==
    { <<"g", "p", "t", "-">>, <<"o", "1", "-">>, <<"t", "e", "x", "t", "-">> }

AnthropicPrefixes == { <<"c", "l", "a", "u", "d", "e", "-">> }

(***************************************************************************)
(* _detect_provider(model)                                                 *)
(***************************************************************************)
DetectError(model) ==
    [raise |-> TRUE,
     error |-> [type |-> "ValueError", msg |-> "Cannot detect provider",
                model |-> model]]

\* A detection whose OpenAI prefixes lack "text-".
DetectProviderNoText(model) ==
    LET model_lower == lower(model.v)
    IN  IF startswith(model_lower,
                      { <<"g", "p", "t", "-">>, <<"o", "1", "-">> })
        THEN Return(PyStr("openai"))
        ELSE IF startswith(model_lower, AnthropicPrefixes)
        THEN Return(PyStr("anthropic"))
        ELSE DetectError(model)

\* A detection that forgets the lower-casing.
DetectProviderCaseSensitive(model) ==
    IF startswith(model.v, OpenAIPrefixes) THEN Return(PyStr("openai"))
    ELSE IF startswith(model.v, AnthropicPrefixes) THEN Return(PyStr("anthropic"))
    ELSE DetectError(model)

\* A detection that looks for the prefix anywhere in the name.
DetectProviderContains(model) ==
    LET model_lower == lower(model.v)
        Tails == { SubSeq(model_lower, i, Len(model_lower)) :
                     i \in 1..(Len(model_lower) + 1) }
    IN  IF \E t \in Tails : startswith(t, OpenAIPrefixes)
        THEN Return(PyStr("openai"))
        ELSE IF \E t \in Tails : startswith(t, AnthropicPrefixes)
        THEN Return(PyStr("anthropic"))
        ELSE DetectError(model)

\* A detection that knows a third provider for the "text-" names.
DetectProviderThird(model) ==
    LET model_lower == lower(model.v)
    IN  IF startswith(model_lower, { <<"t", "e", "x", "t", "-">> })
        THEN Return(PyStr("legacy"))
        ELSE IF startswith(model_lower, OpenAIPrefixes)
        THEN Return(PyStr("openai"))
        ELSE IF startswith(model_lower, AnthropicPrefixes)
        THEN Return(PyStr("anthropic"))
        ELSE DetectError(model)

DetectProvider(model) ==
    LET model_lower == lower(model.v)
    IN  IF startswith(model_lower, OpenAIPrefixes) THEN Return(PyStr("openai"))
        ELSE IF startswith(model_lower, AnthropicPrefixes)
        THEN Return(PyStr("anthropic"))
        ELSE DetectError(model)

(***************************************************************************)
(* Python's call protocol.  A call passes a record of keyword arguments   *)
(* (a first positional argument is the keyword of the first parameter).   *)
(* A signature names the parameters, the required ones, the defaults and  *)
(* whether the callee takes **kwargs.                                      *)
(***************************************************************************)
TypeError(m) == Raise("TypeError", m)

\* The keywords of kw outside the set S, as a record.
Restrict(kw, S) == [k \in (DOMAIN kw) \cap S |-> kw[k]]

\* Binding the keyword record kw to the signature sig.
Bind(sig, kw) ==
    LET extra == (DOMAIN kw) \ sig.params
    IN  IF extra # {} /\ ~sig.varkw
        THEN TypeError("got an unexpected keyword argument")
        ELSE IF sig.required \ (DOMAIN kw) # {}
        THEN TypeError("missing required argument")
        ELSE [raise |-> FALSE,
              args |-> [p \in sig.params |->
                          IF p \in DOMAIN kw THEN kw[p] ELSE sig.defaults[p]],
              kwargs |-> Restrict(kw, extra)]

\* f(a=1, b=2, **kwargs): the explicit keywords together with the splatted ones.
Splat(explicit, kwargs) ==
    IF (DOMAIN explicit) \cap (DOMAIN kwargs) # {}
    THEN TypeError("got multiple values for keyword argument")
    ELSE [raise |-> FALSE, kw |-> explicit @@ kwargs]

\* One entry of the call trace.
Call(fn, kw) == [fn |-> fn, kw |-> kw]

(***************************************************************************)
(* Names, keys and the environment.                                        *)
(***************************************************************************)
GPT_4O_MINI == <<"g", "p", "t", "-", "4", "o", "-", "m", "i", "n", "i">>

CLAUDE_3 == <<"c", "l", "a", "u", "d", "e", "-", "3">>

\* os.getenv(name) in the environment env
getenv(env, name) == env[name]

(***************************************************************************)
(* The vendor SDK clients: OpenAI(api_key=...) and Anthropic(api_key=...). *)
(* The SDKs are outside the repository; a client is a handle that keeps    *)
(* the key it was built with, as the mocks of the tests do.                *)
(***************************************************************************)
VendorClient(cls, kw) == [cls |-> cls, api_key |-> kw.api_key]

(***************************************************************************)
(* OpenAIProvider.__init__(self, api_key=None)                             *)
(***************************************************************************)
OpenAIProvider_init_sig ==
    [params |-> {"api_key"}, required |-> {},
     defaults |-> [api_key |-> PyNone], varkw |-> FALSE]

\* A resolution that prefers the environment variable.
ResolveKeyEnvFirst(api_key, envval) == Or(envval, api_key)

\* api_key or os.getenv(...)
ResolveKey(api_key, envval) == Or(api_key, envval)

OpenAIProvider_init(kw, env) ==
    LET b == Bind(OpenAIProvider_init_sig, kw)
    IN  IF b.raise THEN [out |-> b, calls |-> <<>>]
        ELSE LET ckw == [api_key |->
                           ResolveKey(b.args.api_key,
                                      getenv(env, "OPENAI_API_KEY"))]
             IN  [out |-> Return(PyNone),
                  calls |-> <<Call("OpenAI", ckw)>>,
                  obj |-> [cls |-> "OpenAIProvider",
                           client |-> VendorClient("OpenAI", ckw)]]

(***************************************************************************)
(* Provider.__init__(self, model, api_key=None) and                        *)
(* AnthropicProvider.__init__(self, model, api_key=None)                   *)
(***************************************************************************)
Provider_init(self, model, api_key) == [self EXCEPT !.model = model]

AnthropicProvider_init_sig ==
    [params |-> {"model", "api_key"}, required |-> {"model"},
     defaults |-> [api_key |-> PyNone], varkw |-> FALSE]

AnthropicProvider_init(kw, env) ==
    LET b == Bind(AnthropicProvider_init_sig, kw)
    IN  IF b.raise THEN [out |-> b, calls |-> <<>>]
        ELSE LET ckw == [api_key |->
                           ResolveKey(b.args.api_key,
                                      getenv(env, "ANTHROPIC_API_KEY"))]
                 self0 == [cls |-> "AnthropicProvider", model |-> PyNone,
                           client |-> PyNone]
                 self1 == Provider_init(self0, b.args.model, b.args.api_key)
             IN  [out |-> Return(PyNone),
                  calls |-> <<Call("Anthropic", ckw)>>,
                  obj |-> [self1 EXCEPT
                             !.client = VendorClient("Anthropic", ckw)]]

(***************************************************************************)
(* Model.__init__(self, model="gpt-4o-mini", api_key=None)                 *)
(***************************************************************************)
Model_init_sig ==
    [params |-> {"model", "api_key"}, required |-> {},
     defaults |-> [model |-> PyStr(GPT_4O_MINI), api_key |-> PyNone],
     varkw |-> FALSE]

\* The keywords Model.__init__ passes to the provider class.
ProviderCtorKw(model, api_key) == [api_key |-> api_key]

\* self.model = model
StoredModel(model) == model

Model_init(kw, env) ==
    LET b == Bind(Model_init_sig, kw)
    IN  IF b.raise THEN [out |-> b, calls |-> <<>>]
        ELSE
        LET model == b.args.model
            api_key == b.args.api_key
            d == DetectProvider(model)
            pkw == ProviderCtorKw(model, api_key)
        IN  IF d.raise THEN [out |-> d, calls |-> <<>>]
            ELSE IF d.value \notin {PyStr("openai"), PyStr("anthropic")}
            THEN [out |-> Raise("ValueError", "Unknown provider"),
                  calls |-> <<>>]
            ELSE
            LET cls == IF d.value = PyStr("openai")
                       THEN "OpenAIProvider" ELSE "AnthropicProvider"
                p == IF d.value = PyStr("openai")
                     THEN OpenAIProvider_init(pkw, env)
                     ELSE AnthropicProvider_init(pkw, env)
                calls == <<Call(cls, pkw)>> \o p.calls
            IN  IF p.out.raise THEN [out |-> p.out, calls |-> calls]
                ELSE [out |-> Return(PyNone), calls |-> calls,
                      obj |-> [cls |-> "Model",
                               model |-> StoredModel(model),
                               provider_name |-> d.value,
                               _provider |-> p.obj]]

(***************************************************************************)
(* Caller schemas (pydantic models) and JSON text.  A text is a sequence  *)
(* of tokens; a JSON object is "{", then key/value pairs, then "}".        *)
(***************************************************************************)
\* class Person(BaseModel): name: str; age: int
SchemaFields(cls) == CASE cls = "Person" -> [name |-> "str", age |-> "int"]

Instance(cls, fields) == [type |-> cls, v |-> fields]

LBrace == [t |-> "{", k |-> "", val |-> PyNone]

RBrace == [t |-> "}", k |-> "", val |-> PyNone]

Pair(k, val) == [t |-> "pair", k |-> k, val |-> val]

Word(w) == [t |-> "word", k |-> w, val |-> PyNone]

\* response_format.model_json_schema()
model_json_schema(cls) ==
    [title |-> cls, type |-> "object", properties |-> SchemaFields(cls),
     required |-> DOMAIN SchemaFields(cls)]

\* p.model_dump_json(), the fields in the order of the set Keys given as a sequence
model_dump_json(p, order) ==
    <<LBrace>> \o [i \in 1..Len(order) |-> Pair(order[i], p.v[order[i]])]
               \o <<RBrace>>

\* json.loads: whether the text is a JSON object
IsJsonObject(text) ==
    /\ Len(text) >= 2
    /\ text[1] = LBrace
    /\ text[Len(text)] = RBrace
    /\ \A i \in 2..(Len(text) - 1) : text[i].t = "pair"

JsonKeys(text) == { text[i].k : i \in 2..(Len(text) - 1) }

\* A lookup that takes the object's first value, whatever the key.
JsonGetFirst(text, k) == text[2].val

\* The value of key k: of its last occurrence, when the key is repeated.
JsonGet(text, k) ==
    LET at == { i \in 2..(Len(text) - 1) : text[i].k = k }
    IN  text[CHOOSE i \in at : \A j \in at : j <= i].val

ValidationError == Raise("ValidationError", "schema validation failed")

\* The strings pydantic reads as an integer.
NumericStrings == ("30" :> 30) @@ ("25" :> 25)

\* A validation that takes every value as it comes.
ValidateFieldUnchecked(ftype, val) == Return(val)

\* The validation of one field (pydantic's lax mode): a value of the field's
\* type is kept, a numeric string becomes the int, anything else is an error.
ValidateField(ftype, val) ==
    IF val.type = ftype THEN Return(val)
    ELSE IF ftype = "int" /\ val.type = "str"
              /\ val.v \in DOMAIN NumericStrings
    THEN Return(PyInt(NumericStrings[val.v]))
    ELSE ValidationError

\* response_format.model_validate_json(text)
model_validate_json(cls, text) ==
    LET fields == SchemaFields(cls)
    IN  IF ~IsJsonObject(text) THEN ValidationError
        ELSE IF \E f \in DOMAIN fields :
                   \/ f \notin JsonKeys(text)
                   \/ ValidateField(fields[f], JsonGet(text, f)).raise
        THEN ValidationError
        ELSE Return(Instance(cls,
                 [f \in DOMAIN fields |->
                    ValidateField(fields[f], JsonGet(text, f)).value]))

(***************************************************************************)
(* What the vendor answers to one request: an exception, or a response of *)
(* the endpoint's shape.                                                    *)
(***************************************************************************)
Reply(kind) ==
    [raise |-> FALSE, kind |-> kind, error |-> PyNone, content |-> PyNone,
     parsed |-> PyNone, text |-> PyStr(<<>>)]

NoReply == Reply("none")

VendorFailure ==
    [Reply("error") EXCEPT
       !.raise = TRUE,
       !.error = [type |-> "APIError", msg |-> "raised by the vendor SDK"]]

\* Another failure of the vendor SDK: the key was refused.
AuthFailure ==
    [Reply("error") EXCEPT
       !.raise = TRUE,
       !.error = [type |-> "AuthenticationError", msg |-> "invalid api key"]]

\* response.choices[0].message.content
ChatCompletion(content) == [Reply("ChatCompletion") EXCEPT !.content = content]

\* completion.choices[0].message.parsed
ParsedChatCompletion(parsed) ==
    [Reply("ParsedChatCompletion") EXCEPT !.parsed = parsed]

\* response.content[0].text
Message(text) == [Reply("Message") EXCEPT !.text = PyStr(text)]

\* A request sent to a vendor client.
VendorCall(client, fn, kw) == [fn |-> fn, kw |-> kw, client |-> client]

UserMessages(prompt) == <<[role |-> "user", content |-> prompt]>>

DEFAULT_TEMPERATURE == 7

DEFAULT_MAX_TOKENS == 1024

\* An outcome that hides the vendor's failure behind an empty result.
AnsweredOrEmpty(v, value) ==
    IF v.raise THEN Return(PyStr("")) ELSE Return(value)

\* The outcome of a request once the vendor has answered with v.
Answered(v, value) ==
    IF v.raise THEN [raise |-> TRUE, error |-> v.error] ELSE Return(value)

(***************************************************************************)
(* OpenAIProvider.generate(self, prompt, model="gpt-4o-mini",              *)
(*                         temperature=0.7, max_tokens=None, **kwargs)     *)
(***************************************************************************)
OpenAIProvider_generate_sig ==
    [params |-> {"prompt", "model", "temperature", "max_tokens"},
     required |-> {"prompt"},
     defaults |-> [model |-> PyStr(GPT_4O_MINI),
                   temperature |-> PyFloat(DEFAULT_TEMPERATURE),
                   max_tokens |-> PyNone],
     varkw |-> TRUE]

\* A generate that sends the request a second time when the first one failed.
OpenAIProvider_generate_retrying(self, kw, v) ==
    LET b == Bind(OpenAIProvider_generate_sig, kw)
    IN  IF b.raise THEN [out |-> b, calls |-> <<>>]
        ELSE
        LET s == Splat([model |-> b.args.model,
                        messages |-> UserMessages(b.args.prompt),
                        temperature |-> b.args.temperature,
                        max_tokens |-> b.args.max_tokens], b.kwargs)
            c == VendorCall(self.client, "chat.completions.create", s.kw)
        IN  IF s.raise THEN [out |-> s, calls |-> <<>>]
            ELSE [out |-> Answered(v, Or(v.content, PyStr(""))),
                  calls |-> IF v.raise THEN <<c, c>> ELSE <<c>>]

OpenAIProvider_generate(self, kw, v) ==
    LET b == Bind(OpenAIProvider_generate_sig, kw)
    IN  IF b.raise THEN [out |-> b, calls |-> <<>>]
        ELSE
        LET s == Splat([model |-> b.args.model,
                        messages |-> UserMessages(b.args.prompt),
                        temperature |-> b.args.temperature,
                        max_tokens |-> b.args.max_tokens], b.kwargs)
        IN  IF s.raise THEN [out |-> s, calls |-> <<>>]
            ELSE [out |-> Answered(v, Or(v.content, PyStr(""))),
                  calls |-> <<VendorCall(self.client,
                                         "chat.completions.create", s.kw)>>]

(***************************************************************************)
(* OpenAIProvider.generate_structured(self, prompt, model, response_format,*)
(*                         temperature=0.7, max_tokens=None, **kwargs)     *)
(***************************************************************************)
OpenAIProvider_generate_structured_sig ==
    [params |-> {"prompt", "model", "response_format", "temperature",
                 "max_tokens"},
     required |-> {"prompt", "model", "response_format"},
     defaults |-> [temperature |-> PyFloat(DEFAULT_TEMPERATURE),
                   max_tokens |-> PyNone],
     varkw |-> TRUE]

OpenAIProvider_generate_structured(self, kw, v) ==
    LET b == Bind(OpenAIProvider_generate_structured_sig, kw)
    IN  IF b.raise THEN [out |-> b, calls |-> <<>>]
        ELSE
        LET s == Splat([model |-> b.args.model,
                        messages |-> UserMessages(b.args.prompt),
                        response_format |-> b.args.response_format,
                        temperature |-> b.args.temperature,
                        max_tokens |-> b.args.max_tokens], b.kwargs)
        IN  IF s.raise THEN [out |-> s, calls |-> <<>>]
            ELSE [out |-> Answered(v, v.parsed),
                  calls |-> <<VendorCall(self.client,
                                         "beta.chat.completions.parse",
                                         s.kw)>>]

(***************************************************************************)
(* AnthropicProvider.generate(self, prompt, temperature=0.7,               *)
(*                            max_tokens=None, **kwargs)                   *)
(***************************************************************************)
AnthropicProvider_generate_sig ==
    [params |-> {"prompt", "temperature", "max_tokens"},
     required |-> {"prompt"},
     defaults |-> [temperature |-> PyFloat(DEFAULT_TEMPERATURE),
                   max_tokens |-> PyNone],
     varkw |-> TRUE]

\* A request that carries the caller's max_tokens as it came.
MaxTokensAsGiven(max_tokens) == max_tokens

\* if max_tokens is None: max_tokens = self.DEFAULT_MAX_TOKENS
MaxTokensOrDefault(max_tokens) ==
    IF max_tokens = PyNone THEN PyInt(DEFAULT_MAX_TOKENS) ELSE max_tokens

AnthropicProvider_generate(self, kw, v) ==
    LET b == Bind(AnthropicProvider_generate_sig, kw)
    IN  IF b.raise THEN [out |-> b, calls |-> <<>>]
        ELSE
        LET s == Splat([model |-> self.model,
                        max_tokens |-> MaxTokensOrDefault(b.args.max_tokens),
                        temperature |-> b.args.temperature,
                        messages |-> UserMessages(b.args.prompt)], b.kwargs)
        IN  IF s.raise THEN [out |-> s, calls |-> <<>>]
            ELSE [out |-> Answered(v, v.text),
                  calls |-> <<VendorCall(self.client, "messages.create",
                                         s.kw)>>]

(***************************************************************************)
(* AnthropicProvider.generate_structured(self, prompt, response_format,    *)
(*                         temperature=0.7, max_tokens=None, **kwargs)     *)
(***************************************************************************)
AnthropicProvider_generate_structured_sig ==
    [params |-> {"prompt", "response_format", "temperature", "max_tokens"},
     required |-> {"prompt", "response_format"},
     defaults |-> [temperature |-> PyFloat(DEFAULT_TEMPERATURE),
                   max_tokens |-> PyNone],
     varkw |-> TRUE]

\* A system prompt whose schema names no field.
SystemPromptNoFields(schema) ==
    [head |-> "You must respond with valid JSON that matches this schema:",
     schema |-> [schema EXCEPT !.properties = <<>>, !.required = {}],
     tail |-> "Only return the JSON object, no other text."]

\* The system prompt: the instruction around json.dumps(schema, indent=2).
SystemPrompt(schema) ==
    [head |-> "You must respond with valid JSON that matches this schema:",
     schema |-> schema,
     tail |-> "Only return the JSON object, no other text."]

AnthropicProvider_generate_structured(self, kw, v) ==
    LET b == Bind(AnthropicProvider_generate_structured_sig, kw)
    IN  IF b.raise THEN [out |-> b, calls |-> <<>>]
        ELSE
        LET schema == model_json_schema(b.args.response_format.v)
            s == Splat([model |-> self.model,
                        max_tokens |-> MaxTokensOrDefault(b.args.max_tokens),
                        temperature |-> b.args.temperature,
                        system |-> SystemPrompt(schema),
                        messages |-> UserMessages(b.args.prompt)], b.kwargs)
        IN  IF s.raise THEN [out |-> s, calls |-> <<>>]
            ELSE [out |-> IF v.raise THEN Answered(v, PyNone)
                          ELSE model_validate_json(b.args.response_format.v,
                                                   v.text.v),
                  calls |-> <<VendorCall(self.client, "messages.create",
                                         s.kw)>>]

(***************************************************************************)
(* Calling a method of the provider a Model holds (dynamic dispatch).      *)
(***************************************************************************)
Provider_generate(provider, kw, v) ==
    IF provider.cls = "OpenAIProvider"
    THEN OpenAIProvider_generate(provider, kw, v)
    ELSE AnthropicProvider_generate(provider, kw, v)

Provider_generate_structured(provider, kw, v) ==
    IF provider.cls = "OpenAIProvider"
    THEN OpenAIProvider_generate_structured(provider, kw, v)
    ELSE AnthropicProvider_generate_structured(provider, kw, v)

(***************************************************************************)
(* Model.generate(self, prompt, temperature=0.7, max_tokens=None,          *)
(*                **kwargs)                                                 *)
(***************************************************************************)
Model_generate_sig ==
    [params |-> {"prompt", "temperature", "max_tokens"},
     required |-> {"prompt"},
     defaults |-> [temperature |-> PyFloat(DEFAULT_TEMPERATURE),
                   max_tokens |-> PyNone],
     varkw |-> TRUE]

Model_generate(self, kw, v) ==
    LET b == Bind(Model_generate_sig, kw)
    IN  IF b.raise THEN [out |-> b, calls |-> <<>>]
        ELSE
        LET s == Splat([prompt |-> b.args.prompt,
                        model |-> self.model,
                        temperature |-> b.args.temperature,
                        max_tokens |-> b.args.max_tokens], b.kwargs)
        IN  IF s.raise THEN [out |-> s, calls |-> <<>>]
            ELSE LET r == Provider_generate(self._provider, s.kw, v)
                 IN  [out |-> r.out,
                      calls |-> <<Call("provider.generate", s.kw)>>
                                  \o r.calls]

(***************************************************************************)
(* Model.generate_structured(self, prompt, response_format,                *)
(*                temperature=0.7, max_tokens=None, **kwargs)               *)
(***************************************************************************)
Model_generate_structured_sig ==
    [params |-> {"prompt", "response_format", "temperature", "max_tokens"},
     required |-> {"prompt", "response_format"},
     defaults |-> [temperature |-> PyFloat(DEFAULT_TEMPERATURE),
                   max_tokens |-> PyNone],
     varkw |-> TRUE]

Model_generate_structured(self, kw, v) ==
    LET b == Bind(Model_generate_structured_sig, kw)
    IN  IF b.raise THEN [out |-> b, calls |-> <<>>]
        ELSE
        LET s == Splat([prompt |-> b.args.prompt,
                        model |-> self.model,
                        response_format |-> b.args.response_format,
                        temperature |-> b.args.temperature,
                        max_tokens |-> b.args.max_tokens], b.kwargs)
        IN  IF s.raise THEN [out |-> s, calls |-> <<>>]
            ELSE LET r == Provider_generate_structured(self._provider,
                                                       s.kw, v)
                 IN  [out |-> r.out,
                      calls |-> <<Call("provider.generate_structured", s.kw)>>
                                  \o r.calls]

(***************************************************************************)
(* The inputs the operations are called with.                              *)
(***************************************************************************)
Prefixes == OpenAIPrefixes \cup AnthropicPrefixes

capitalize(s) ==
    [i \in 1..Len(s) |-> IF i = 1 THEN CharUpper(s[i]) ELSE CharLower(s[i])]

\* The prefixes and their initial segments, in three casings.
Heads ==
    UNION { { h, upper(h), capitalize(h) } :
              h \in UNION { { SubSeq(p, 1, k) : k \in 0..Len(p) } :
                              p \in Prefixes } }

FullHeads == UNION { { p, upper(p), capitalize(p) } : p \in Prefixes }

\* Model names for _detect_provider: the heads alone, and the full prefixes
\* with something before them, after them, or both.
DetectNames ==
    { PyStr(h) : h \in Heads }
      \cup { PyStr(<<"x">> \o h) : h \in FullHeads }
      \cup { PyStr(h \o <<"4">>) : h \in FullHeads }
      \cup { PyStr(<<"x">> \o p \o <<"4">>) : p \in Prefixes }

GPT_4_UPPER == <<"G", "P", "T", "-", "4">>

\* Model names the objects are constructed with.
ModelNames ==
    { PyStr(GPT_4O_MINI), PyStr(GPT_4_UPPER), PyStr(CLAUDE_3),
      PyStr(upper(CLAUDE_3)), PyStr(<<"x", "g", "p", "t", "-", "4">>),
      PyStr(<<>>) }

ApiKeys == { PyStr(""), PyStr("test-key") }

\* The environment with neither variable set.
NoEnv == [OPENAI_API_KEY |-> PyNone, ANTHROPIC_API_KEY |-> PyNone]

\* The environments: neither variable set, or both.
Envs ==
    { NoEnv,
      [OPENAI_API_KEY |-> PyStr("env-openai"),
       ANTHROPIC_API_KEY |-> PyStr("env-anthropic")] }

\* The keyword records a constructor is called with: model and api_key, each
\* given or left out.
CtorKws(models) ==
    { <<>> } \cup { [model |-> m] : m \in models }
             \cup { [api_key |-> k] : k \in ApiKeys }
             \cup { [model |-> m, api_key |-> k] : m \in models, k \in ApiKeys }

Prompt1 == PyStr("What is the capital of France?")

Prompt2 == PyStr("Extract: John is 30")

Custom == [temperature |-> PyFloat(5), max_tokens |-> PyInt(100)]

Format == [response_format |-> PyClass("Person")]

\* The keyword records Model.generate is called with: a prompt alone, or with
\* a temperature and max_tokens of the caller's.
GenerateKws ==
    { [prompt |-> Prompt1], [prompt |-> Prompt2],
      [prompt |-> Prompt1] @@ Custom }

\* The same with a response_format, for generate_structured (and without one).
StructuredKws ==
    { [prompt |-> Prompt1], [prompt |-> Prompt2] @@ Format,
      [prompt |-> Prompt1] @@ Format @@ Custom }

\* A provider's methods are also called with a model keyword.
ProviderGenerateKws ==
    GenerateKws
      \cup { [prompt |-> Prompt2] @@ Format,
             [prompt |-> Prompt1, model |-> PyStr(CLAUDE_3)],
             [prompt |-> Prompt1, max_tokens |-> PyNone] }

ProviderStructuredKws ==
    StructuredKws
      \cup { [prompt |-> Prompt2, model |-> PyStr(GPT_4O_MINI)] @@ Format }

John == Instance("Person", [name |-> PyStr("John"), age |-> PyInt(30)])

Jane == Instance("Person", [name |-> PyStr("Jane"), age |-> PyInt(25)])

Nobody == Instance("Person", [name |-> PyStr(""), age |-> PyInt(0)])

\* The instances of the caller's schema.
People == { John, Jane, Nobody }

PersonOrder == <<"name", "age">>

Texts ==
    { <<Word("Paris")>>,
      model_dump_json(John, PersonOrder),
      model_dump_json(Jane, PersonOrder),
      model_dump_json(Nobody, PersonOrder),
      <<LBrace, Pair("name", PyStr("John")), RBrace>>,
      <<LBrace, Pair("name", PyStr("John")), Pair("age", PyStr("thirty")),
        RBrace>>,
      <<LBrace, Pair("name", PyStr("John")), Pair("age", PyStr("30")),
        RBrace>>,
      <<LBrace, Pair("name", PyStr("John")), Pair("age", PyInt(30))>> }

\* What the vendor may answer to the request c.
Replies(c) ==
    { VendorFailure, AuthFailure } \cup
    CASE c.fn = "chat.completions.create" ->
           { ChatCompletion(PyNone), ChatCompletion(PyStr("Paris")) }
      [] c.fn = "beta.chat.completions.parse" ->
           { ParsedChatCompletion(John), ParsedChatCompletion(Jane) }
      [] c.fn = "messages.create" -> { Message(t) : t \in Texts }

AllReplies ==
    { NoReply, VendorFailure, AuthFailure, ChatCompletion(PyNone),
      ChatCompletion(PyStr("Paris")), ParsedChatCompletion(John),
      ParsedChatCompletion(Jane) } \cup { Message(t) : t \in Texts }

IsVendorCall(c) == "client" \in DOMAIN c

VendorCalls(calls) == SelectSeq(calls, IsVendorCall)

\* The answers that fit the requests an operation sent: none when it sent none.
RepliesFor(calls) ==
    IF VendorCalls(calls) = <<>> THEN { NoReply }
    ELSE Replies(VendorCalls(calls)[1])

(***************************************************************************)
(* The state: the objects constructed so far, the last operation with its  *)
(* arguments and outcome, and the calls it made.  Beside them, what an     *)
(* observer of the program records: the vendor's answer to the last        *)
(* operation (reply), every object as its constructor left it (built), and *)
(* the number of method calls made on Models with the number of requests   *)
(* those calls sent to a vendor client (callCount, requestCount).          *)
(***************************************************************************)
Done(op, self, kw, env, out) ==
    [op |-> op, self |-> self, kw |-> kw, env |-> env, out |-> out]

Init ==
    /\ objs = <<>>
    /\ last = Done("start", 0, <<>>, NoEnv, Return(PyNone))
    /\ trace = <<>>
    /\ reply = NoReply
    /\ built = <<>>
    /\ callCount = 0
    /\ requestCount = 0

\* _detect_provider(model)
DetectCall(model) ==
    /\ last' = Done("_detect_provider", 0, [model |-> model], NoEnv,
                    DetectProvider(model))
    /\ trace' = <<>>
    /\ reply' = NoReply
    /\ UNCHANGED <<objs, built, callCount, requestCount>>

\* The effect of a constructor call with result r.
Constructed(op, kw, env, r) ==
    /\ objs' = IF r.out.raise THEN objs ELSE Append(objs, r.obj)
    /\ built' = IF r.out.raise THEN built ELSE Append(built, r.obj)
    /\ last' = Done(op, IF r.out.raise THEN 0 ELSE Len(objs) + 1, kw, env, r.out)
    /\ trace' = r.calls
    /\ reply' = NoReply
    /\ UNCHANGED <<callCount, requestCount>>

\* Model(**kw)
NewModel(kw, env) ==
    /\ Len(objs) < MaxObjs
    /\ Constructed("Model", kw, env, Model_init(kw, env))

\* OpenAIProvider(**kw)
NewOpenAIProvider(kw, env) ==
    /\ Len(objs) < MaxObjs
    /\ Constructed("OpenAIProvider", kw, env, OpenAIProvider_init(kw, env))

\* AnthropicProvider(**kw)
NewAnthropicProvider(kw, env) ==
    /\ Len(objs) < MaxObjs
    /\ Constructed("AnthropicProvider", kw, env,
                   AnthropicProvider_init(kw, env))

\* A method call that keeps its arguments on the object it was called on.
CalledRemembering(op, i, kw, v, r) ==
    /\ v \in RepliesFor(r.calls)
    /\ last' = Done(op, i, kw, NoEnv, r.out)
    /\ trace' = r.calls
    /\ reply' = v
    /\ objs' = [objs EXCEPT ![i] = [remembered |-> kw] @@ @]
    /\ UNCHANGED built

\* The effect of a method call on objs[i] with result r, the vendor answering v.
Called(op, i, kw, v, r) ==
    /\ v \in RepliesFor(r.calls)
    /\ last' = Done(op, i, kw, NoEnv, r.out)
    /\ trace' = r.calls
    /\ reply' = v
    /\ UNCHANGED <<objs, built>>

\* The count of a call on a Model whose arguments bound as b and whose result
\* is r: one more call when the method was entered, and its requests.
Counted(b, r) ==
    /\ callCount' = IF b.raise THEN callCount ELSE callCount + 1
    /\ requestCount' = requestCount + Len(VendorCalls(r.calls))

\* objs[i].generate(**kw), objs[i] a Model
ModelGenerate(i, kw, v) ==
    /\ objs[i].cls = "Model"
    /\ callCount < MaxCalls
    /\ Called("Model.generate", i, kw, v, Model_generate(objs[i], kw, v))
    /\ Counted(Bind(Model_generate_sig, kw), Model_generate(objs[i], kw, v))

\* objs[i].generate_structured(**kw), objs[i] a Model
ModelGenerateStructured(i, kw, v) ==
    /\ objs[i].cls = "Model"
    /\ callCount < MaxCalls
    /\ Called("Model.generate_structured", i, kw, v,
              Model_generate_structured(objs[i], kw, v))
    /\ Counted(Bind(Model_generate_structured_sig, kw),
               Model_generate_structured(objs[i], kw, v))

\* objs[i].generate(**kw), objs[i] a provider
ProviderGenerate(i, kw, v) ==
    /\ objs[i].cls \in {"OpenAIProvider", "AnthropicProvider"}
    /\ Called("Provider.generate", i, kw, v,
              Provider_generate(objs[i], kw, v))
    /\ UNCHANGED <<callCount, requestCount>>

\* objs[i].generate_structured(**kw), objs[i] a provider
ProviderGenerateStructured(i, kw, v) ==
    /\ objs[i].cls \in {"OpenAIProvider", "AnthropicProvider"}
    /\ Called("Provider.generate_structured", i, kw, v,
              Provider_generate_structured(objs[i], kw, v))
    /\ UNCHANGED <<callCount, requestCount>>

ProviderModels == { PyStr(GPT_4O_MINI), PyStr(CLAUDE_3) }

\* The facade and the providers, constructed and called.
Next ==
    \/ \E kw \in CtorKws(ModelNames), env \in Envs : NewModel(kw, env)
    \/ \E kw \in CtorKws(ProviderModels), env \in Envs :
         NewOpenAIProvider(kw, env)
    \/ \E kw \in CtorKws(ProviderModels), env \in Envs :
         NewAnthropicProvider(kw, env)
    \/ \E i \in DOMAIN objs, kw \in GenerateKws, v \in AllReplies :
         ModelGenerate(i, kw, v)
    \/ \E i \in DOMAIN objs, kw \in StructuredKws, v \in AllReplies :
         ModelGenerateStructured(i, kw, v)
    \/ \E i \in DOMAIN objs, kw \in ProviderGenerateKws, v \in AllReplies :
         ProviderGenerate(i, kw, v)
    \/ \E i \in DOMAIN objs, kw \in ProviderStructuredKws, v \in AllReplies :
         ProviderGenerateStructured(i, kw, v)

Spec == Init /\ [][Next]_vars

\* The providers on their own, constructed and called directly.
NextProviders ==
    \/ \E kw \in CtorKws(ProviderModels), env \in Envs :
         NewOpenAIProvider(kw, env)
    \/ \E kw \in CtorKws(ProviderModels), env \in Envs :
         NewAnthropicProvider(kw, env)
    \/ \E i \in DOMAIN objs, kw \in ProviderGenerateKws, v \in AllReplies :
         ProviderGenerate(i, kw, v)
    \/ \E i \in DOMAIN objs, kw \in ProviderStructuredKws, v \in AllReplies :
         ProviderGenerateStructured(i, kw, v)

SpecProviders == Init /\ [][NextProviders]_vars

\* The facade on its own: Models constructed and called.
NextModels ==
    \/ \E kw \in CtorKws(ModelNames), env \in Envs : NewModel(kw, env)
    \/ \E i \in DOMAIN objs, kw \in GenerateKws, v \in AllReplies :
         ModelGenerate(i, kw, v)
    \/ \E i \in DOMAIN objs, kw \in StructuredKws, v \in AllReplies :
         ModelGenerateStructured(i, kw, v)

SpecModels == Init /\ [][NextModels]_vars

\* Provider detection on its own, over the names of DetectNames, and through
\* the construction of a Model.
NextDetect ==
    \/ \E model \in DetectNames : DetectCall(model)
    \/ \E kw \in CtorKws(ModelNames), env \in Envs : NewModel(kw, env)

SpecDetect == Init /\ [][NextDetect]_vars

(***************************************************************************)
(* What the claims speak of.                                               *)
(***************************************************************************)
IsDetectError(out) ==
    /\ out.raise
    /\ out.error.type = "ValueError"
    /\ out.error.msg = "Cannot detect provider"

\* The same provider, or the same kind of error.
SameOutcome(a, b) ==
    /\ a.raise = b.raise
    /\ a.raise => a.error.type = b.error.type /\ a.error.msg = b.error.msg
    /\ ~a.raise => a.value = b.value

\* The argument the last call bound to the parameter p: the caller's, or dflt.
Arg(p, dflt) == IF p \in DOMAIN last.kw THEN last.kw[p] ELSE dflt

IsProviderCtorCall(c) == c.fn \in {"OpenAIProvider", "AnthropicProvider"}

IsClientCtorCall(c) == c.fn \in {"OpenAI", "Anthropic"}

IsProviderGenerateCall(c) == c.fn = "provider.generate"

IsProviderStructuredCall(c) == c.fn = "provider.generate_structured"

ProviderClassOf(name) ==
    IF name = PyStr("openai") THEN "OpenAIProvider" ELSE "AnthropicProvider"

ClientClassOf(cls) == IF cls = "OpenAIProvider" THEN "OpenAI" ELSE "Anthropic"

EnvVarOf(cls) ==
    IF cls = "OpenAIProvider" THEN "OPENAI_API_KEY" ELSE "ANTHROPIC_API_KEY"

(***************************************************************************)
(* C1: _detect_provider returns "openai" for every name that starts with  *)
(* "gpt-", "o1-" or "text-" and "anthropic" for every name that starts    *)
(* with "claude-"; no name starts with a prefix of both providers, so no  *)
(* name is mapped to both.                                                  *)
(***************************************************************************)
C1_DetectByPrefix ==
    last.op = "_detect_provider" =>
      LET name == last.kw.model.v
      IN  /\ startswith(name, OpenAIPrefixes) =>
               last.out = Return(PyStr("openai"))
          /\ startswith(name, AnthropicPrefixes) =>
               last.out = Return(PyStr("anthropic"))
          /\ ~(startswith(name, OpenAIPrefixes)
                 /\ startswith(name, AnthropicPrefixes))

\* _detect_provider("text-4") has returned "openai".
C1_Witness ==
    /\ last.op = "_detect_provider"
    /\ last.kw.model = PyStr(<<"t", "e", "x", "t", "-", "4">>)
    /\ last.out = Return(PyStr("openai"))

(***************************************************************************)
(* C2, as stated: for every model name that starts with none of "gpt-",   *)
(* "o1-", "text-", "claude-", _detect_provider raises the ValueError      *)
(* "Cannot detect provider", and Model(model=name) raises it without       *)
(* constructing a provider or an SDK client.                               *)
(***************************************************************************)
C2_AsStated ==
    (/\ last.op \in {"_detect_provider", "Model"}
     /\ "model" \in DOMAIN last.kw
     /\ ~startswith(last.kw.model.v, Prefixes))
      => /\ IsDetectError(last.out)
         /\ trace = <<>>
         /\ last.self = 0

(***************************************************************************)
(* C2, amended: for every model name whose lower-cased form starts with   *)
(* none of "gpt-", "o1-", "text-", "claude-" (the empty string and the    *)
(* names that hold a prefix only after position 0 among them),             *)
(* _detect_provider raises the ValueError "Cannot detect provider", and    *)
(* Model(model=name) raises it without constructing a provider or an SDK  *)
(* client.                                                                  *)
(***************************************************************************)
C2_DetectErrorOtherwise ==
    (/\ last.op \in {"_detect_provider", "Model"}
     /\ "model" \in DOMAIN last.kw
     /\ ~startswith(lower(last.kw.model.v), Prefixes))
      => /\ IsDetectError(last.out)
         /\ trace = <<>>
         /\ last.self = 0

\* Model(model="xgpt-4") has raised the detection error and constructed nothing.
C2_Witness ==
    /\ last.op = "Model"
    /\ "model" \in DOMAIN last.kw
    /\ last.kw.model = PyStr(<<"x", "g", "p", "t", "-", "4">>)
    /\ IsDetectError(last.out)
    /\ trace = <<>>
    /\ objs = <<>>

(***************************************************************************)
(* C3: provider detection is case-insensitive: _detect_provider gives the *)
(* same outcome (the same provider, or the same detection error) for a    *)
(* name and for every re-casing of it, while a Model keeps the model      *)
(* identifier in Model.model as the caller wrote it.                       *)
(***************************************************************************)
C3_CaseInsensitive ==
    /\ last.op = "_detect_provider" =>
         LET name == last.kw.model.v
         IN  /\ \A r \in { lower(name), upper(name), capitalize(name) } :
                  SameOutcome(DetectProvider(PyStr(r)), last.out)
             /\ \A m \in DetectNames :
                  lower(m.v) = lower(name) =>
                    SameOutcome(DetectProvider(m), last.out)
    /\ (last.op = "Model" /\ ~last.out.raise) =>
         objs[last.self].model = Arg("model", PyStr(GPT_4O_MINI))

\* Model(model="GPT-4") exists, is an OpenAI one, and holds "GPT-4".
C3_Witness ==
    /\ last.op = "Model"
    /\ ~last.out.raise
    /\ Arg("model", PyStr(GPT_4O_MINI)) = PyStr(GPT_4_UPPER)
    /\ objs[last.self].model = PyStr(GPT_4_UPPER)
    /\ objs[last.self].provider_name = PyStr("openai")

(***************************************************************************)
(* C4: a provider's generate is the single call for free text and for     *)
(* structured output: provider.generate(prompt, response_format=Schema)   *)
(* sends the provider's structured request (for OpenAI exactly one call   *)
(* to the beta parse endpoint) and returns an instance of Schema, and     *)
(* generate without a response_format returns the text of the response.   *)
(***************************************************************************)
C4_SingleGenerate ==
    (last.op = "Provider.generate" /\ ~last.out.raise) =>
      IF "response_format" \in DOMAIN last.kw
      THEN /\ last.out.value.type = last.kw.response_format.v
           /\ Len(VendorCalls(trace)) = 1
           /\ objs[last.self].cls = "OpenAIProvider" =>
                VendorCalls(trace)[1].fn = "beta.chat.completions.parse"
           /\ objs[last.self].cls = "AnthropicProvider" =>
                "system" \in DOMAIN VendorCalls(trace)[1].kw
      ELSE last.out.value.type = "str"

(***************************************************************************)
(* C5: Model(model=m, api_key=k) with a recognised name constructs        *)
(* exactly one provider, of the detected variant, with the arguments      *)
(* model=m and api_key=k; afterwards Model.provider_name is the detected  *)
(* provider and Model.model is m.                                          *)
(***************************************************************************)
C5_ModelConstructsProvider ==
    (/\ last.op = "Model"
     /\ {"model", "api_key"} \subseteq DOMAIN last.kw
     /\ ~DetectProvider(last.kw.model).raise)
      => LET detected == DetectProvider(last.kw.model).value
             ctors == SelectSeq(trace, IsProviderCtorCall)
         IN  /\ Len(ctors) = 1
             /\ ctors[1].fn = ProviderClassOf(detected)
             /\ ctors[1].kw = [model |-> last.kw.model,
                               api_key |-> last.kw.api_key]
             /\ ~last.out.raise
             /\ objs[last.self].provider_name = detected
             /\ objs[last.self].model = last.kw.model

(***************************************************************************)
(* C6: for every model name that provider detection accepts, Model(...)   *)
(* with the real provider classes completes without raising, and a        *)
(* following generate or generate_structured reaches the vendor client    *)
(* (no argument error is raised before the outbound request).             *)
(***************************************************************************)
C6_AcceptedNamesConstruct ==
    /\ (last.op = "Model"
          /\ ~DetectProvider(Arg("model", PyStr(GPT_4O_MINI))).raise)
         => ~last.out.raise
    /\ last.op = "Model.generate" => VendorCalls(trace) # <<>>
    /\ (last.op = "Model.generate_structured"
          /\ "response_format" \in DOMAIN last.kw)
         => VendorCalls(trace) # <<>>

(***************************************************************************)
(* C7: Model.generate calls the provider's generate exactly once, with    *)
(* exactly the keywords prompt, temperature and max_tokens (0.7 and None  *)
(* when the caller leaves them out), and returns its result.              *)
(***************************************************************************)
C7_GenerateDelegates ==
    last.op = "Model.generate" =>
      LET sent == SelectSeq(trace, IsProviderGenerateCall)
      IN  /\ Len(sent) = 1
          /\ sent[1].kw =
               [prompt |-> last.kw.prompt,
                temperature |-> Arg("temperature",
                                    PyFloat(DEFAULT_TEMPERATURE)),
                max_tokens |-> Arg("max_tokens", PyNone)]

(***************************************************************************)
(* C8: Model.generate_structured calls the provider's generate_structured *)
(* exactly once, with exactly the keywords prompt, response_format,       *)
(* temperature and max_tokens (0.7 and None by default), and returns the  *)
(* provider's object, an instance of response_format.                      *)
(***************************************************************************)
C8_StructuredDelegates ==
    (last.op = "Model.generate_structured"
       /\ "response_format" \in DOMAIN last.kw) =>
      LET sent == SelectSeq(trace, IsProviderStructuredCall)
      IN  /\ Len(sent) = 1
          /\ sent[1].kw =
               [prompt |-> last.kw.prompt,
                response_format |-> last.kw.response_format,
                temperature |-> Arg("temperature",
                                    PyFloat(DEFAULT_TEMPERATURE)),
                max_tokens |-> Arg("max_tokens", PyNone)]
          /\ ~last.out.raise =>
               last.out.value.type = last.kw.response_format.v

(***************************************************************************)
(* C9: a provider constructed with Provider(model=m, api_key=k), of       *)
(* either class, exists and sends every request of generate with          *)
(* model = m and the caller's prompt as the one user message.             *)
(***************************************************************************)
C9_ProviderKeepsModel ==
    /\ (last.op \in {"OpenAIProvider", "AnthropicProvider"}
          /\ {"model", "api_key"} \subseteq DOMAIN last.kw)
         => /\ ~last.out.raise
            /\ objs[last.self].model = last.kw.model
    /\ (last.op = "Provider.generate" /\ VendorCalls(trace) # <<>>)
         => /\ "model" \in DOMAIN objs[last.self]
            /\ VendorCalls(trace)[1].kw.model = objs[last.self].model
            /\ VendorCalls(trace)[1].kw.messages =
                 UserMessages(last.kw.prompt)

(***************************************************************************)
(* C10, as stated: each provider constructs its vendor client exactly     *)
(* once, with the explicit api_key argument when one is given and the     *)
(* value of the provider's environment variable otherwise; an explicit    *)
(* key always takes precedence.                                            *)
(***************************************************************************)
C10_AsStated ==
    (last.op \in {"OpenAIProvider", "AnthropicProvider"} /\ ~last.out.raise)
      => LET clients == SelectSeq(trace, IsClientCtorCall)
         IN  /\ Len(clients) = 1
             /\ clients[1].fn = ClientClassOf(last.op)
             /\ clients[1].kw =
                  [api_key |-> Arg("api_key", last.env[EnvVarOf(last.op)])]

(***************************************************************************)
(* C10, amended: each provider constructs its vendor client exactly once, *)
(* with the explicit api_key argument when a non-empty one is given, and  *)
(* otherwise (no api_key, None, or the empty string) with the value of    *)
(* the provider's environment variable (OPENAI_API_KEY for OpenAI,        *)
(* ANTHROPIC_API_KEY for Anthropic); a non-empty explicit key always      *)
(* takes precedence over the environment variable.                         *)
(***************************************************************************)
C10_KeyResolution ==
    (last.op \in {"OpenAIProvider", "AnthropicProvider"} /\ ~last.out.raise)
      => LET clients == SelectSeq(trace, IsClientCtorCall)
             given == Arg("api_key", PyNone)
             envval == last.env[EnvVarOf(last.op)]
         IN  /\ Len(clients) = 1
             /\ clients[1].fn = ClientClassOf(last.op)
             /\ clients[1].kw =
                  [api_key |-> IF given \in {PyNone, PyStr("")}
                               THEN envval ELSE given]
             /\ objs[last.self].client.api_key = clients[1].kw.api_key

\* AnthropicProvider(model=..., api_key="test-key") with ANTHROPIC_API_KEY set
\* has built its client with "test-key".
C10_Witness ==
    /\ last.op = "AnthropicProvider"
    /\ ~last.out.raise
    /\ Arg("api_key", PyNone) = PyStr("test-key")
    /\ last.env.ANTHROPIC_API_KEY = PyStr("env-anthropic")
    /\ trace = <<Call("Anthropic", [api_key |-> PyStr("test-key")])>>
    /\ objs[last.self].client.api_key = PyStr("test-key")

\* The last operation was a method call on an AnthropicProvider.
OnAnthropicProvider ==
    /\ last.op \in {"Provider.generate", "Provider.generate_structured"}
    /\ objs[last.self].cls = "AnthropicProvider"

(***************************************************************************)
(* C11: in AnthropicProvider.generate and generate_structured the         *)
(* request's max_tokens is 1024 when the caller passes none (None) and    *)
(* the caller's value otherwise, never None; its temperature is the       *)
(* caller's value, 0.7 by default.                                         *)
(***************************************************************************)
C11_AnthropicMaxTokens ==
    OnAnthropicProvider =>
      \A n \in DOMAIN VendorCalls(trace) :
        LET request == VendorCalls(trace)[n].kw
            given == Arg("max_tokens", PyNone)
        IN  /\ request.max_tokens # PyNone
            /\ given = PyNone => request.max_tokens = PyInt(1024)
            /\ given # PyNone => request.max_tokens = given
            /\ request.temperature = Arg("temperature", PyFloat(7))

\* AnthropicProvider.generate(prompt, max_tokens=None) has sent max_tokens=1024.
C11_Witness ==
    /\ OnAnthropicProvider
    /\ last.op = "Provider.generate"
    /\ last.kw = [prompt |-> Prompt1, max_tokens |-> PyNone]
    /\ Len(VendorCalls(trace)) = 1
    /\ VendorCalls(trace)[1].kw.max_tokens = PyInt(1024)

\* The last operation was AnthropicProvider.generate_structured, and the
\* vendor answered its request with a message.
AnthropicStructuredAnswered ==
    /\ OnAnthropicProvider
    /\ last.op = "Provider.generate_structured"
    /\ VendorCalls(trace) # <<>>
    /\ reply.kind = "Message"

ReplyText == reply.text.v

ReplySchema == SchemaFields(last.kw.response_format.v)

\* The text is no JSON object, or lacks a field of the schema.
Malformed(text, fields) ==
    \/ ~IsJsonObject(text)
    \/ \E f \in DOMAIN fields : \A n \in DOMAIN text : text[n].k # f

\* The call failed with the schema-validation error and returned nothing.
FailedValidation ==
    /\ last.out.raise
    /\ last.out.error.type = "ValidationError"
    /\ "value" \notin DOMAIN last.out

\* The call returned an instance of the schema, every field of it present
\* and of the field's type.
ReturnedValidated ==
    /\ ~last.out.raise
    /\ last.out.value.type = last.kw.response_format.v
    /\ DOMAIN last.out.value.v = DOMAIN ReplySchema
    /\ \A f \in DOMAIN ReplySchema :
         last.out.value.v[f].type = ReplySchema[f]

(***************************************************************************)
(* C13, as stated: on the Anthropic structured path, when the text of the *)
(* vendor's response is not valid JSON or does not match the caller's     *)
(* schema (a field missing, a field of the wrong type), the call fails    *)
(* with a schema-validation error and returns no object; it never returns *)
(* a partially filled or unvalidated object.                               *)
(***************************************************************************)
C13_AsStated ==
    AnthropicStructuredAnswered =>
      /\ (\/ Malformed(ReplyText, ReplySchema)
          \/ \E f \in DOMAIN ReplySchema :
               JsonGet(ReplyText, f).type # ReplySchema[f])
           => FailedValidation
      /\ FailedValidation \/ ReturnedValidated

(***************************************************************************)
(* C13, amended: on the Anthropic structured path, when the text of the   *)
(* vendor's response is not valid JSON, lacks a field of the caller's     *)
(* schema, or holds for a field a value that is neither of the field's    *)
(* type nor a numeric string for an integer field, the call fails with a  *)
(* schema-validation error and returns no object; a numeric string for an *)
(* integer field is converted to the integer.  The call never returns a   *)
(* partially filled or unvalidated object: what it returns has every      *)
(* field of the schema, each of the field's type.                          *)
(***************************************************************************)
C13_ValidationError ==
    AnthropicStructuredAnswered =>
      /\ (\/ Malformed(ReplyText, ReplySchema)
          \/ \E f \in DOMAIN ReplySchema :
               LET val == JsonGet(ReplyText, f)
               IN  /\ val.type # ReplySchema[f]
                   /\ ~(ReplySchema[f] = "int" /\ val.type = "str"
                          /\ val.v \in {"30", "25"}))
           => FailedValidation
      /\ FailedValidation \/ ReturnedValidated
      /\ (~Malformed(ReplyText, ReplySchema) /\ ~last.out.raise) =>
           \A f \in DOMAIN ReplySchema :
             LET val == JsonGet(ReplyText, f)
             IN  IF val.type = ReplySchema[f]
                 THEN last.out.value.v[f] = val
                 ELSE val.v = "30" /\ last.out.value.v[f] = PyInt(30)

\* The vendor answered {"name": "John", "age": "thirty"} and the call failed
\* with the validation error.
C13_Witness ==
    /\ AnthropicStructuredAnswered
    /\ ReplyText = <<LBrace, Pair("name", PyStr("John")),
                     Pair("age", PyStr("thirty")), RBrace>>
    /\ FailedValidation

\* The last operation was a call of generate or generate_structured, on a
\* Model or on a provider.
IsMethodCall ==
    last.op \in {"Model.generate", "Model.generate_structured",
                 "Provider.generate", "Provider.generate_structured"}

\* An AnthropicProvider, as AnthropicProvider(model="claude-3") builds it.
AnAnthropicProvider ==
    AnthropicProvider_init([model |-> PyStr(CLAUDE_3)], NoEnv).obj

\* The result r of a method that met the vendor's failure f is that failure,
\* raised after one request and with no value.
PassedThrough(r, f) ==
    r.calls # <<>> =>
      /\ r.out.raise
      /\ r.out.error = f.error
      /\ "value" \notin DOMAIN r.out
      /\ Len(VendorCalls(r.calls)) = 1

(***************************************************************************)
(* C14: a failure the vendor client raises during the outbound request    *)
(* reaches the caller of Model.generate / Model.generate_structured       *)
(* unmodified: the error raised to the caller is the vendor's, the        *)
(* request was sent once and not again, and no result value is returned.  *)
(* The same holds of the methods of the provider no Model holds, the      *)
(* AnthropicProvider, called with every failure of the vendor.             *)
(***************************************************************************)
C14_VendorFailurePassesThrough ==
    /\ (IsMethodCall /\ reply.raise) =>
         /\ last.out.raise
         /\ last.out.error = reply.error
         /\ "value" \notin DOMAIN last.out
         /\ Len(VendorCalls(trace)) = 1
    /\ \A f \in {VendorFailure, AuthFailure} :
         /\ \A kw \in ProviderGenerateKws :
              PassedThrough(AnthropicProvider_generate(AnAnthropicProvider,
                                                       kw, f), f)
         /\ \A kw \in ProviderStructuredKws :
              PassedThrough(
                AnthropicProvider_generate_structured(AnAnthropicProvider,
                                                      kw, f), f)

\* Model.generate_structured met the vendor's authentication failure and
\* raised it.
C14_Witness ==
    /\ last.op = "Model.generate_structured"
    /\ reply = AuthFailure
    /\ last.out.raise
    /\ last.out.error.type = "AuthenticationError"

\* The last operation was a call on a Model whose arguments fit the method's
\* signature, so that the method was entered.
ModelMethodEntered ==
    \/ /\ last.op = "Model.generate"
       /\ ~Bind(Model_generate_sig, last.kw).raise
    \/ /\ last.op = "Model.generate_structured"
       /\ ~Bind(Model_generate_structured_sig, last.kw).raise

(***************************************************************************)
(* C15: every generate or generate_structured call on a Model issues      *)
(* exactly one outbound request, to the vendor client of the Model's      *)
(* detected provider and none to the other provider's: after any sequence *)
(* of n calls on Models the number of requests sent is exactly n, with no *)
(* retry (also after a failure), no caching (a repeated call is sent      *)
(* again) and no fan-out.                                                  *)
(***************************************************************************)
C15_OneRequestPerCall ==
    /\ requestCount = callCount
    /\ ModelMethodEntered =>
         LET sent == VendorCalls(trace)
             self == objs[last.self]
         IN  /\ Len(sent) = 1
             /\ sent[1].client = self._provider.client
             /\ sent[1].client.cls =
                  ClientClassOf(ProviderClassOf(self.provider_name))

\* Two calls have been made on a Model, the second one a generate that the
\* vendor failed, and two requests have been sent.
C15_Witness ==
    /\ callCount = 2
    /\ requestCount = 2
    /\ last.op = "Model.generate"
    /\ reply.raise
    /\ Len(VendorCalls(trace)) = 1

\* The result the last call on a Model has by its arguments and the vendor's
\* answer alone, the Model being as its constructor left it.
ResultOnBuilt ==
    IF last.op = "Model.generate"
    THEN Model_generate(built[last.self], last.kw, reply).out
    ELSE Model_generate_structured(built[last.self], last.kw, reply).out

(***************************************************************************)
(* C16: generate and generate_structured leave the client's state         *)
(* unchanged: after any sequence of calls, successful or failing, every   *)
(* Model has the model, the provider_name, the provider instance and the  *)
(* client handle it had right after construction, so that the result of a *)
(* call depends only on its arguments and the vendor's response, not on   *)
(* earlier calls.                                                           *)
(***************************************************************************)
C16_CallsKeepState ==
    /\ Len(objs) = Len(built)
    /\ \A i \in DOMAIN objs :
         /\ DOMAIN objs[i] = DOMAIN built[i]
         /\ objs[i].cls = "Model" =>
              /\ objs[i].model = built[i].model
              /\ objs[i].provider_name = built[i].provider_name
              /\ objs[i]._provider = built[i]._provider
              /\ objs[i]._provider.client = built[i]._provider.client
         /\ objs[i].cls # "Model" => objs[i] = built[i]
    /\ last.op \in {"Model.generate", "Model.generate_structured"} =>
         last.out = ResultOnBuilt

\* A Model has been called twice, the second call failing at the vendor, and
\* is as it was constructed.
C16_Witness ==
    /\ callCount = 2
    /\ last.op \in {"Model.generate", "Model.generate_structured"}
    /\ reply = VendorFailure
    /\ objs[last.self].cls = "Model"
    /\ objs[last.self] = built[last.self]

C18_ProviderNameInvariant ==
    /\ \A i \in DOMAIN objs :
         objs[i].cls = "Model" =>
           /\ objs[i].provider_name \in {PyStr("openai"), PyStr("anthropic")}
           /\ DetectProvider(objs[i].model) = Return(objs[i].provider_name)
           /\ objs[i]._provider.cls = "OpenAIProvider"
                <=> objs[i].provider_name = PyStr("openai")
           /\ objs[i]._provider.cls = "AnthropicProvider"
                <=> objs[i].provider_name = PyStr("anthropic")
    /\ (last.op = "_detect_provider" /\ ~last.out.raise) =>
         last.out.value \in {PyStr("openai"), PyStr("anthropic")}
    /\ (last.op = "Model" /\ last.out.raise) =>
         last.out.error.msg # "Unknown provider"

\* A Model built for "GPT-4" exists, named "openai" and OpenAI-backed.
C18_Witness ==
    /\ Len(objs) = 1
    /\ objs[1].cls = "Model"
    /\ objs[1].model = PyStr(GPT_4_UPPER)
    /\ objs[1].provider_name = PyStr("openai")
    /\ objs[1]._provider.cls = "OpenAIProvider"

====
